---- MODULE Spec2Model ----
(***************************************************************************)
(* Battery-rental backend: the rental lifecycle (create / return), the     *)
(* payment ledger and the credit-rating recomputation, as the Express      *)
(* handlers of backend/src/routes run them against the Prisma store.       *)
(*                                                                         *)
(* A handler is a sequence of awaited database calls.  Each awaited call   *)
(* (or each prisma.$transaction) is one atomic step of the model; between  *)
(* two awaits of one request the steps of other requests may run.  The     *)
(* synchronous prefix of a handler (body validation) runs in the same step *)
(* as its first database call.                                             *)
(*                                                                         *)
(* Money is in whole currency units, time in half days (TicksPerDay).      *)
(* A battery's price is checked where a handler requires it and is not     *)
(* kept: no route modelled here reads it back.  The same holds of a        *)
(* customer's name and address.                                            *)
(***************************************************************************)
EXTENDS Integers, Sequences, FiniteSets, TLC

\* ------------------------------------------------------------------ bounds
MaxRequests == 3      \* requests accepted in one behaviour
MaxRentals == 2       \* rental rows
MaxPayments == 2      \* payment rows

\* --------------------------------------------------------------- constants
TicksPerDay == 2      \* 1000 * 60 * 60 * 24 ms, in half days
StandardRentalDays == 7
DefaultCreditRating == 3

Procs == {"p1", "p2"}                 \* requests in flight at once
BatteryIds == {"b1", "b2"}            \* uuids the store hands to batteries
CustomerIds == {"c1", "c2"}           \* uuids of the customers on record
Serials == {"s1", "s2"}
Phones == {"ph1", "ph2"}
Times == {0, 16}                      \* instants the clock is read at

\* request-body values; "" and 0 are the falsy (missing) ones
SerialInputs == Serials \cup {""}
StatusInputs == {"", "AVAILABLE", "RENTED", "MAINTENANCE"}
PhoneInputs == Phones \cup {""}

\* an optional value: <<>> is undefined / null, <<v>> is v
Null == <<>>
Some(v) == <<v>>
IsSet(o) == o # <<>>
Val(o) == o[1]
OptBool == {Null, Some(TRUE), Some(FALSE)}
OptTime == {Null} \cup {Some(t) : t \in Times}

\* A raw amount of a request body: the JSON number v (junk = FALSE), or the
\* string made of the digits of v followed by other characters (junk = TRUE).
RawAmounts == {[v |-> -1, junk |-> FALSE], [v |-> 0, junk |-> FALSE],
               [v |-> 1, junk |-> FALSE], [v |-> 2, junk |-> FALSE],
               [v |-> 2, junk |-> TRUE]}

\* Request bodies: every complete body, and one body for each missing field.
\* Rentals are asked for customer c1 and for c9, who is on no record; c2 stays
\* a customer without rentals.
CreateRentalBodies ==
  [batteryId : BatteryIds, customerId : {"c1", "c9"}, rentalPrice : {2},
   isPaid : OptBool]
  \cup {[batteryId |-> "", customerId |-> "c1", rentalPrice |-> 2, isPaid |-> Null],
        [batteryId |-> "b1", customerId |-> "", rentalPrice |-> 2, isPaid |-> Null],
        [batteryId |-> "b1", customerId |-> "c1", rentalPrice |-> 0, isPaid |-> Null]}

RecordPaymentBodies ==
  [rentalId : 1..MaxRentals, customerId : CustomerIds \cup {"c9"},
   amount : RawAmounts \ {[v |-> 0, junk |-> FALSE]}, paymentMethod : {"CASH"}]
  \cup {[rentalId |-> 0, customerId |-> "c1", amount |-> [v |-> 1, junk |-> FALSE],
         paymentMethod |-> "CASH"],
        [rentalId |-> 1, customerId |-> "", amount |-> [v |-> 1, junk |-> FALSE],
         paymentMethod |-> "CASH"],
        [rentalId |-> 1, customerId |-> "c1", amount |-> [v |-> 0, junk |-> FALSE],
         paymentMethod |-> "CASH"],
        [rentalId |-> 1, customerId |-> "c1", amount |-> [v |-> 1, junk |-> FALSE],
         paymentMethod |-> ""]}

AddBatteryBodies ==
  [serialNumber : Serials, price : {2}]
  \cup {[serialNumber |-> "", price |-> 2], [serialNumber |-> "s1", price |-> 0]}

AddCustomerBodies ==
  [name : {"n"}, phoneNumber : Phones]
  \cup {[name |-> "", phoneNumber |-> "ph1"], [name |-> "n", phoneNumber |-> ""]}

\* A raw creditRating of a request body: undefined (Null), a number v, or a
\* string that does not start with a digit (nan = TRUE).
RawRatings == {Null, Some([v |-> 0, nan |-> FALSE]), Some([v |-> 9, nan |-> FALSE]),
               Some([v |-> 0, nan |-> TRUE])}
\* parseInt(creditRating) : NaN (Null) for a string without leading digits
parseInt(raw) == IF raw.nan THEN Null ELSE Some(raw.v)

\* !amount : 0 is falsy, a non-empty string is truthy
Falsy(raw) == ~raw.junk /\ raw.v = 0
\* Number(amount) : NaN (Null) for a string with trailing characters
NumberOf(raw) == IF raw.junk THEN Null ELSE Some(raw.v)
\* parseFloat(amount) : the leading number
parseFloat(raw) == raw.v

VARIABLES
  batteries,   \* id -> [serialNumber, status]         (table batteries)
  customers,   \* id -> [phoneNumber, creditRating]    (table customers)
  rentals,     \* sequence of rental rows, id = index  (table rentals)
  payments,    \* sequence of payment rows             (table payments)
  now,         \* the clock
  pc,          \* per request slot: where its handler stands
  req,         \* per request slot: the handler's body and locals
  resp,        \* the response sent last
  nreq         \* requests accepted so far

vars == <<batteries, customers, rentals, payments, now, pc, req, resp, nreq>>
db == <<batteries, customers, rentals, payments>>

NoReq == [op |-> "none"]
NoResp == [status |-> 0, error |-> ""]
Ok(code) == [status |-> code, error |-> ""]
Err(code, msg) == [status |-> code, error |-> msg]

\* ------------------------------------------------------------------- store
RentalIds == 1..Len(rentals)
RentalIdInputs == 1..MaxRentals

OpenRentals(b) == {r \in RentalIds : rentals[r].batteryId = b /\ ~IsSet(rentals[r].returnDate)}

PaymentsOf(r) == {i \in 1..Len(payments) : payments[i].rentalId = r}

RECURSIVE SumAmounts(_, _)
SumAmounts(ps, idx) ==
  IF idx = {} THEN 0
  ELSE LET i == CHOOSE j \in idx : TRUE
       IN ps[i].amount + SumAmounts(ps, idx \ {i})

\* rental.payments.reduce((sum, payment) => sum + Number(payment.amount), 0)
TotalPaid(r) == SumAmounts(payments, PaymentsOf(r))

\* The fields of a rental row that the handlers read from their copy of it.
Read(rental) == [batteryId |-> rental.batteryId, customerId |-> rental.customerId,
                 rentalPrice |-> rental.rentalPrice, isPaid |-> rental.isPaid]

\* A store image, as a transaction reads and writes it.
Store == [batteries |-> batteries, rentals |-> rentals, payments |-> payments]

\* One write of the Prisma client, applied to a store image.
ApplyWrite(img, w) ==
  CASE w.kind = "rental.create" ->
         [img EXCEPT !.rentals = Append(@, w.row)]
    [] w.kind = "rental.update" ->
         [img EXCEPT !.rentals[w.id] =
            [@ EXCEPT !.returnDate = IF IsSet(w.returnDate) THEN w.returnDate ELSE @,
                      !.isPaid = IF IsSet(w.isPaid) THEN Val(w.isPaid) ELSE @]]
    [] w.kind = "battery.update" ->
         [img EXCEPT !.batteries[w.id].status = w.status]
    [] w.kind = "payment.create" ->
         [img EXCEPT !.payments = Append(@, w.row)]

RECURSIVE ApplyWrites(_, _, _, _)
ApplyWrites(img, writes, k, stop) ==
  IF k > Len(writes) \/ k = stop THEN img
  ELSE ApplyWrites(ApplyWrite(img, writes[k]), writes, k + 1, stop)

\* The same writes issued one by one outside a transaction: the writes before
\* the one that throws stay.
TransactionNotAtomic(s, writes, failAt) == ApplyWrites(s, writes, 1, failAt)

\* prisma.$transaction(fn): the writes of fn, in order, each of which may
\* throw.  failAt = 0: none throws and the image after the last write commits;
\* failAt = k > 0: write k throws and the image before the first write stays.
Transaction(s, writes, failAt) ==
  IF failAt # 0 THEN s ELSE ApplyWrites(s, writes, 1, 0)

Commit(img) ==
  /\ batteries' = img.batteries
  /\ rentals' = img.rentals
  /\ payments' = img.payments

\* --------------------------------------------------------- credit rating
RentalsOf(c) == {r \in RentalIds : rentals[r].customerId = c}

\* Math.floor((returnDate - rentDate) / (1000 * 60 * 60 * 24))
RentDuration(rental) == (Val(rental.returnDate) - rental.rentDate) \div TicksPerDay

PaymentPoints(r) ==
  IF rentals[r].isPaid THEN 2
  ELSE IF PaymentsOf(r) # {} THEN 1 ELSE 0

ReturnPoints(r) ==
  IF IsSet(rentals[r].returnDate) /\ RentDuration(rentals[r]) <= StandardRentalDays
  THEN 1 ELSE 0

RECURSIVE TotalPoints(_)
TotalPoints(rs) ==
  IF rs = {} THEN 0
  ELSE LET r == CHOOSE x \in rs : TRUE
       IN PaymentPoints(r) + ReturnPoints(r) + TotalPoints(rs \ {r})

\* Math.round(totalPoints / (totalRentals * 3) * 5): halves round up
CreditRatingTruncated(totalPoints, totalRentals) ==
  (5 * totalPoints) \div (3 * totalRentals)

CreditRating(totalPoints, totalRentals) ==
  (10 * totalPoints + 3 * totalRentals) \div (6 * totalRentals)

\* ------------------------------------------------------------ scheduling
Finish(p, r) ==
  /\ pc' = [pc EXCEPT ![p] = "idle"]
  /\ req' = [req EXCEPT ![p] = NoReq]
  /\ resp' = r

Goto(p, label, locals) ==
  /\ pc' = [pc EXCEPT ![p] = label]
  /\ req' = [req EXCEPT ![p] = locals]
  /\ resp' = resp

\* a request arrives at a free slot
Accept(p) ==
  /\ pc[p] = "idle"
  /\ nreq < MaxRequests
  /\ nreq' = nreq + 1

InFlight(op) == Cardinality({q \in Procs : req[q].op = op})

\* the customer rows of cs as POST /api/customers creates them
OnRecord(cs) ==
  [c \in cs |-> [phoneNumber |-> IF c = "c1" THEN "ph1" ELSE "ph2",
                 creditRating |-> DefaultCreditRating]]

\* The store once battery b1 and customers c1, c2 have been entered, each
\* with the values its route gives a new record; no rental or payment yet.
Init ==
  /\ batteries = [b \in {"b1"} |-> [serialNumber |-> "s1", status |-> "AVAILABLE"]]
  /\ customers = OnRecord(CustomerIds)
  /\ rentals = <<>>
  /\ payments = <<>>
  /\ now \in Times /\ \A t \in Times : now <= t
  /\ pc = [p \in Procs |-> "idle"]
  /\ req = [p \in Procs |-> NoReq]
  /\ resp = NoResp
  /\ nreq = 0

Tick ==
  /\ \E t \in Times : t > now /\ (\A u \in Times : u > now => t <= u) /\ now' = t
  /\ UNCHANGED <<db, pc, req, resp, nreq>>

\* res.status(201).json(result) of POST /api/payments, res.json(result) of
\* the two PUTs of /api/rentals; the function called on its own sends nothing
FinalResponse(op) ==
  IF op = "recordPayment" THEN Ok(201)
  ELSE IF op = "recompute" THEN resp
  ELSE Ok(200)

\* ------------------------------------------- updateCustomerCreditRating
\* findMany({ where: { customerId }, include: { payments: true } }) and the
\* arithmetic on its result; a throw is caught and logged.
\* the same without the try / catch: a throw of findMany reaches the handler
CreditReadUncaught(p) ==
  /\ pc[p] = "credit_read"
  /\ \E dbOk \in BOOLEAN :
       LET c == req[p].creditCustomer
           n == Cardinality(RentalsOf(c))
       IN IF ~dbOk
          THEN Finish(p, Err(500, "Failed"))
          ELSE IF n = 0
          THEN Finish(p, FinalResponse(req[p].op))
          ELSE Goto(p, "credit_write",
                    [req[p] EXCEPT !.rating = CreditRating(TotalPoints(RentalsOf(c)), n)])
  /\ UNCHANGED <<db, now, nreq>>

CreditRead(p) ==
  /\ pc[p] = "credit_read"
  /\ \E dbOk \in BOOLEAN :
       LET c == req[p].creditCustomer
           n == Cardinality(RentalsOf(c))
       IN IF ~dbOk \/ n = 0
          THEN Finish(p, FinalResponse(req[p].op))
          ELSE Goto(p, "credit_write",
                    [req[p] EXCEPT !.rating = CreditRating(TotalPoints(RentalsOf(c)), n)])
  /\ UNCHANGED <<db, now, nreq>>

\* customer.update({ where: { id: customerId }, data: { creditRating } })
\* a write that moves the stored rating halfway to the computed one
CreditWriteSmoothed(p) ==
  /\ pc[p] = "credit_write"
  /\ \E dbOk \in BOOLEAN :
       customers' = IF dbOk
                    THEN [customers EXCEPT ![req[p].creditCustomer].creditRating =
                            (@ + req[p].rating + 1) \div 2]
                    ELSE customers
  /\ Finish(p, FinalResponse(req[p].op))
  /\ UNCHANGED <<batteries, rentals, payments, now, nreq>>

CreditWrite(p) ==
  /\ pc[p] = "credit_write"
  /\ \E dbOk \in BOOLEAN :
       customers' = IF dbOk
                    THEN [customers EXCEPT ![req[p].creditCustomer].creditRating = req[p].rating]
                    ELSE customers
  /\ Finish(p, FinalResponse(req[p].op))
  /\ UNCHANGED <<batteries, rentals, payments, now, nreq>>

\* the handler goes on to await updateCustomerCreditRating(c), then responds
StartCredit(p, op, c) ==
  Goto(p, "credit_read", [op |-> op, creditCustomer |-> c, rating |-> 0])

\* updateCustomerCreditRating(customerId), called on its own
Recompute(p) ==
  /\ Accept(p)
  /\ \E c \in CustomerIds : StartCredit(p, "recompute", c)
  /\ UNCHANGED <<db, now>>

\* ------------------------------------------------- POST /api/rentals
\* battery.status !== 'AVAILABLE' rejects the request
BatteryRentableAlways(battery) == TRUE

BatteryRentable(battery) == battery.status = "AVAILABLE"

\* !batteryId || !customerId || !rentalPrice
CreateRentalIncomplete(body) ==
  body.batteryId = "" \/ body.customerId = "" \/ body.rentalPrice = 0

\* battery.findUnique answered, for a complete body
CreateRentalChecked(p, body) ==
  IF body.batteryId \notin DOMAIN batteries
  THEN Finish(p, Err(404, "Battery not found"))
  ELSE IF ~BatteryRentable(batteries[body.batteryId])
  THEN Finish(p, Err(400, "Battery is not available for rent"))
  ELSE Goto(p, "cr_findCustomer",
            [op |-> "createRental", batteryId |-> body.batteryId,
             customerId |-> body.customerId, rentalPrice |-> body.rentalPrice,
             isPaid |-> IF IsSet(body.isPaid) THEN Val(body.isPaid) ELSE FALSE])

CreateRentalFindBattery(p) ==
  /\ Accept(p)
  /\ Len(rentals) + InFlight("createRental") < MaxRentals
  /\ \/ \E body \in CreateRentalBodies :
            /\ CreateRentalIncomplete(body)
            /\ Finish(p, Err(400, "Battery ID, customer ID, and rental price are required"))
     \/ Finish(p, Err(500, "Failed to create rental"))     \* findUnique throws
     \/ \E body \in CreateRentalBodies :
            /\ ~CreateRentalIncomplete(body)
            /\ CreateRentalChecked(p, body)
  /\ UNCHANGED <<db, now>>

\* the same without the !customer test
CreateRentalFindCustomerUnchecked(p) ==
  /\ pc[p] = "cr_findCustomer"
  /\ \E dbOk \in BOOLEAN :
       IF ~dbOk
       THEN Finish(p, Err(500, "Failed to create rental"))
       ELSE Goto(p, "cr_tx", req[p])
  /\ UNCHANGED <<db, now, nreq>>

CreateRentalFindCustomer(p) ==
  /\ pc[p] = "cr_findCustomer"
  /\ \E dbOk \in BOOLEAN :
       IF ~dbOk
       THEN Finish(p, Err(500, "Failed to create rental"))
       ELSE IF req[p].customerId \notin DOMAIN customers
       THEN Finish(p, Err(404, "Customer not found"))
       ELSE Goto(p, "cr_tx", req[p])
  /\ UNCHANGED <<db, now, nreq>>

\* rental.create then battery.update, in one prisma.$transaction
CreateRentalWrites(r) ==
  << [kind |-> "rental.create",
      row |-> [batteryId |-> r.batteryId, customerId |-> r.customerId,
               rentDate |-> now, returnDate |-> Null,
               rentalPrice |-> r.rentalPrice,
               isPaid |-> r.isPaid]],
     [kind |-> "battery.update", id |-> r.batteryId, status |-> "RENTED"] >>

CreateRentalTx(p) ==
  /\ pc[p] = "cr_tx"
  /\ \E failAt \in 0..2 :
       /\ Commit(Transaction(Store, CreateRentalWrites(req[p]), failAt))
       /\ Finish(p, IF failAt = 0 THEN Ok(201) ELSE Err(500, "Failed to create rental"))
  /\ UNCHANGED <<customers, now, nreq>>

\* ------------------------------------------ PUT /api/rentals/:id/return
\* rental.returnDate set rejects the request
AlreadyReturnedNever(rental) == FALSE

AlreadyReturned(rental) == IsSet(rental.returnDate)

\* rental.findUnique answered
ReturnBatteryChecked(p, id, returnDate, isPaid) ==
  IF id \notin RentalIds
  THEN Finish(p, Err(404, "Rental not found"))
  ELSE IF AlreadyReturned(rentals[id])
  THEN Finish(p, Err(400, "Battery has already been returned"))
  ELSE Goto(p, "rb_tx",
            [op |-> "returnBattery", id |-> id, returnDate |-> returnDate,
             isPaid |-> isPaid, rental |-> Read(rentals[id])])

ReturnBatteryFindRental(p) ==
  /\ Accept(p)
  /\ \/ Finish(p, Err(500, "Failed to return battery"))    \* findUnique throws
     \/ \E id \in RentalIdInputs, returnDate \in OptTime, isPaid \in OptBool :
            ReturnBatteryChecked(p, id, returnDate, isPaid)
  /\ UNCHANGED <<db, now>>

\* rental.update then battery.update, in one prisma.$transaction; rental is
\* the row as findUnique read it
ReturnBatteryWrites(r) ==
  << [kind |-> "rental.update", id |-> r.id,
      returnDate |-> IF IsSet(r.returnDate) THEN r.returnDate ELSE Some(now),
      isPaid |-> IF IsSet(r.isPaid) THEN r.isPaid ELSE Some(r.rental.isPaid)],
     [kind |-> "battery.update", id |-> r.rental.batteryId, status |-> "AVAILABLE"] >>

ReturnBatteryTx(p) ==
  /\ pc[p] = "rb_tx"
  /\ \E failAt \in 0..2 :
       /\ Commit(Transaction(Store, ReturnBatteryWrites(req[p]), failAt))
       /\ IF failAt = 0
          THEN StartCredit(p, "returnBattery", req[p].rental.customerId)
          ELSE Finish(p, Err(500, "Failed to return battery"))
  /\ UNCHANGED <<customers, now, nreq>>

\* ----------------------------------------- PUT /api/rentals/:id/payment
UpdatePaymentStatusFind(p) ==
  /\ Accept(p)
  /\ \/ Finish(p, Err(400, "Payment status is required"))    \* isPaid === undefined
     \/ Finish(p, Err(500, "Failed to update rental payment status"))
     \/ \E id \in RentalIdInputs :
            /\ id \notin RentalIds
            /\ Finish(p, Err(404, "Rental not found"))
     \/ \E id \in RentalIds, isPaid \in BOOLEAN :
            Goto(p, "ps_update",
                 [op |-> "updatePaymentStatus", id |-> id, isPaid |-> isPaid,
                  rental |-> Read(rentals[id])])
  /\ UNCHANGED <<db, now>>

UpdatePaymentStatusUpdate(p) ==
  /\ pc[p] = "ps_update"
  /\ \E dbOk \in BOOLEAN :
       IF dbOk
       THEN /\ rentals' = [rentals EXCEPT ![req[p].id].isPaid = req[p].isPaid]
            /\ StartCredit(p, "updatePaymentStatus", req[p].rental.customerId)
       ELSE /\ rentals' = rentals
            /\ Finish(p, Err(500, "Failed to update rental payment status"))
  /\ UNCHANGED <<batteries, customers, payments, now, nreq>>

\* ------------------------------------------------- POST /api/payments
\* newTotalPaid >= rentalPrice, false when newTotalPaid is NaN
FullyPaidStrict(newTotalPaid, rentalPrice) ==
  IsSet(newTotalPaid) /\ Val(newTotalPaid) > rentalPrice

FullyPaid(newTotalPaid, rentalPrice) ==
  IsSet(newTotalPaid) /\ Val(newTotalPaid) >= rentalPrice

\* totalPaidSoFar + Number(amount)
NewTotalPaid(totalPaidSoFar, amount) ==
  IF IsSet(NumberOf(amount)) THEN Some(totalPaidSoFar + Val(NumberOf(amount))) ELSE Null

\* !rentalId || !customerId || !amount || !paymentMethod
RecordPaymentIncomplete(body) ==
  body.rentalId = 0 \/ body.customerId = "" \/ Falsy(body.amount) \/ body.paymentMethod = ""

RecordPaymentFrom(p, bodies) ==
  /\ Accept(p)
  /\ Len(payments) + InFlight("recordPayment") < MaxPayments
  /\ \/ \E body \in bodies :
            /\ RecordPaymentIncomplete(body)
            /\ Finish(p, Err(400, "Rental ID, customer ID, amount, and payment method are required"))
     \/ Finish(p, Err(500, "Failed to create payment"))     \* findUnique throws
     \/ \E body \in bodies :
            /\ ~RecordPaymentIncomplete(body)
            /\ IF body.rentalId \notin RentalIds
               THEN Finish(p, Err(404, "Rental not found"))
               ELSE Goto(p, "pm_findCustomer",
                         [op |-> "recordPayment", rentalId |-> body.rentalId,
                          customerId |-> body.customerId, amount |-> body.amount,
                          rental |-> Read(rentals[body.rentalId]),
                          totalPaidSoFar |-> TotalPaid(body.rentalId)])
  /\ UNCHANGED <<db, now>>

RecordPaymentFindRental(p) == RecordPaymentFrom(p, RecordPaymentBodies)

\* the same handler, called with JSON numbers for amounts only
RecordPaymentOfNumber(p) ==
  RecordPaymentFrom(p, {body \in RecordPaymentBodies : ~body.amount.junk})

\* rental.customerId !== customerId rejects the request
CustomerMatchesAlways(rental, customerId) == TRUE

CustomerMatches(rental, customerId) == rental.customerId = customerId

RecordPaymentFindCustomer(p) ==
  /\ pc[p] = "pm_findCustomer"
  /\ \E dbOk \in BOOLEAN :
       IF ~dbOk
       THEN Finish(p, Err(500, "Failed to create payment"))
       ELSE IF req[p].customerId \notin DOMAIN customers
       THEN Finish(p, Err(404, "Customer not found"))
       ELSE IF ~CustomerMatches(req[p].rental, req[p].customerId)
       THEN Finish(p, Err(400, "Customer ID does not match the rental"))
       ELSE Goto(p, "pm_tx", req[p])
  /\ UNCHANGED <<db, now, nreq>>

\* payment.create, then rental.update when fully paid, in one
\* prisma.$transaction
RecordPaymentWritesRecompute(r) ==
  << [kind |-> "payment.create",
      row |-> [rentalId |-> r.rentalId, customerId |-> r.customerId,
               amount |-> parseFloat(r.amount)]],
     [kind |-> "rental.update", id |-> r.rentalId, returnDate |-> Null,
      isPaid |-> Some(FullyPaid(NewTotalPaid(r.totalPaidSoFar, r.amount),
                                r.rental.rentalPrice))] >>

RecordPaymentWrites(r) ==
  << [kind |-> "payment.create",
      row |-> [rentalId |-> r.rentalId, customerId |-> r.customerId,
               amount |-> parseFloat(r.amount)]] >>
  \o (IF FullyPaid(NewTotalPaid(r.totalPaidSoFar, r.amount), r.rental.rentalPrice)
      THEN << [kind |-> "rental.update", id |-> r.rentalId,
               returnDate |-> Null, isPaid |-> Some(TRUE)] >>
      ELSE << >>)

RecordPaymentTx(p) ==
  /\ pc[p] = "pm_tx"
  /\ \E failAt \in 0..2 :
       /\ failAt <= Len(RecordPaymentWrites(req[p]))
       /\ Commit(Transaction(Store, RecordPaymentWrites(req[p]), failAt))
       /\ IF failAt = 0
          THEN StartCredit(p, "recordPayment", req[p].customerId)
          ELSE Finish(p, Err(500, "Failed to create payment"))
  /\ UNCHANGED <<customers, now, nreq>>

\* ------------------------------------------------ POST /api/inventory
\* a store that holds no serial number for anyone
SerialTakenNever(serial, except) == FALSE

\* the store's @unique on Battery.serialNumber
SerialTaken(serial, except) ==
  \E b \in DOMAIN batteries \ except : batteries[b].serialNumber = serial

AddBatteryFind(p) ==
  /\ Accept(p)
  /\ Cardinality(DOMAIN batteries) + InFlight("addBattery") < Cardinality(BatteryIds)
  /\ \/ \E body \in AddBatteryBodies :
            /\ (body.serialNumber = "" \/ body.price = 0)
            /\ Finish(p, Err(400, "Serial number and price are required"))
     \/ Finish(p, Err(500, "Failed to create battery"))     \* findUnique throws
     \/ \E body \in AddBatteryBodies :
            /\ ~(body.serialNumber = "" \/ body.price = 0)
            /\ IF SerialTaken(body.serialNumber, {})
               THEN Finish(p, Err(400, "Battery with this serial number already exists"))
               ELSE Goto(p, "ab_create",
                         [op |-> "addBattery", serialNumber |-> body.serialNumber])
  /\ UNCHANGED <<db, now>>

AddBatteryCreate(p) ==
  /\ pc[p] = "ab_create"
  /\ \E id \in BatteryIds \ DOMAIN batteries, dbOk \in BOOLEAN :
       IF dbOk /\ ~SerialTaken(req[p].serialNumber, {})
       THEN /\ batteries' = [b \in DOMAIN batteries \cup {id} |->
                               IF b = id
                               THEN [serialNumber |-> req[p].serialNumber, status |-> "AVAILABLE"]
                               ELSE batteries[b]]
            /\ Finish(p, Ok(201))
       ELSE /\ batteries' = batteries
            /\ Finish(p, Err(500, "Failed to create battery"))
  /\ UNCHANGED <<customers, rentals, payments, now, nreq>>

\* ---------------------------------------------- PUT /api/inventory/:id
UpdateBatteryFrom(p, serials) ==
  /\ Accept(p)
  /\ \/ Finish(p, Err(500, "Failed to update battery"))    \* findUnique throws
     \/ \E id \in BatteryIds :
            /\ id \notin DOMAIN batteries
            /\ Finish(p, Err(404, "Battery not found"))
     \/ \E id \in DOMAIN batteries, serialNumber \in serials, status \in StatusInputs :
            Goto(p, IF serialNumber # "" /\ serialNumber # batteries[id].serialNumber
                    THEN "ub_findDuplicate" ELSE "ub_update",
                 [op |-> "updateBattery", id |-> id, serialNumber |-> serialNumber,
                  status |-> status])
  /\ UNCHANGED <<db, now>>

UpdateBatteryFind(p) == UpdateBatteryFrom(p, SerialInputs)

\* the same handler, called without a serialNumber
UpdateBatteryStatus(p) == UpdateBatteryFrom(p, {""})

UpdateBatteryFindDuplicate(p) ==
  /\ pc[p] = "ub_findDuplicate"
  /\ \E dbOk \in BOOLEAN :
       IF ~dbOk
       THEN Finish(p, Err(500, "Failed to update battery"))
       ELSE IF SerialTaken(req[p].serialNumber, {})
       THEN Finish(p, Err(400, "Battery with this serial number already exists"))
       ELSE Goto(p, "ub_update", req[p])
  /\ UNCHANGED <<db, now, nreq>>

\* data: { ...(serialNumber && { serialNumber }), ...(status && { status }) }
UpdateBatteryUpdate(p) ==
  /\ pc[p] = "ub_update"
  /\ \E dbOk \in BOOLEAN :
       LET r == req[p]
       IN IF dbOk /\ ~(r.serialNumber # "" /\ SerialTaken(r.serialNumber, {r.id}))
          THEN /\ batteries' =
                    [batteries EXCEPT
                       ![r.id].serialNumber = IF r.serialNumber # "" THEN r.serialNumber ELSE @,
                       ![r.id].status = IF r.status # "" THEN r.status ELSE @]
               /\ Finish(p, Ok(200))
          ELSE /\ batteries' = batteries
               /\ Finish(p, Err(500, "Failed to update battery"))
  /\ UNCHANGED <<customers, rentals, payments, now, nreq>>

\* ------------------------------------------------------ middleware/auth
\* req.user of a request that no middleware has handled yet
Unauthenticated == Null

\* requireAuth sets req.user to the mock user and calls next()
requireAuth(user) == Some([id |-> "mock-user-id", role |-> "admin"])

\* requireAdmin calls next() when req.user && req.user.role === 'admin',
\* else answers 403
requireAdminOpen(user) == TRUE

requireAdmin(user) == IsSet(user) /\ Val(user).role = "admin"

\* ------------------------------------------- DELETE /api/inventory/:id
\* existingBattery.rentals.length > 0, and the foreign key of Rental.batteryId
HasRentalHistory(id) == \E r \in RentalIds : rentals[r].batteryId = id

\* router.delete('/:id', requireAdmin, handler): requireAdmin is the first
\* middleware of the route, then battery.findUnique answers
DeleteBatteryChecked(p, id) ==
  IF ~requireAdmin(Unauthenticated)
  THEN Finish(p, Err(403, "Unauthorized: Admin access required"))
  ELSE IF id \notin DOMAIN batteries
  THEN Finish(p, Err(404, "Battery not found"))
  ELSE IF HasRentalHistory(id)
  THEN Finish(p, Err(400, "Cannot delete battery with rental history. Consider marking it as MAINTENANCE instead."))
  ELSE Goto(p, "db_delete", [op |-> "deleteBattery", id |-> id])

DeleteBatteryFind(p) ==
  /\ Accept(p)
  /\ \/ /\ requireAdmin(Unauthenticated)
        /\ Finish(p, Err(500, "Failed to delete battery"))    \* findUnique throws
     \/ \E id \in BatteryIds : DeleteBatteryChecked(p, id)
  /\ UNCHANGED <<db, now>>

\* battery.delete({ where: { id } }); the store refuses to delete a battery
\* that a rental references.  No request passes requireAdmin, so no request
\* ever stands at this call.
DeleteBatteryDelete(p) ==
  /\ pc[p] = "db_delete"
  /\ \E dbOk \in BOOLEAN :
       LET id == req[p].id
       IN IF dbOk /\ id \in DOMAIN batteries /\ ~HasRentalHistory(id)
          THEN /\ batteries' = [b \in DOMAIN batteries \ {id} |-> batteries[b]]
               /\ Finish(p, Ok(200))
          ELSE /\ batteries' = batteries
               /\ Finish(p, Err(500, "Failed to delete battery"))
  /\ UNCHANGED <<customers, rentals, payments, now, nreq>>

\* ------------------------------------------- DELETE /api/customers/:id
\* existingCustomer.rentals.length > 0 || existingCustomer.payments.length > 0
HasCustomerHistory(id) ==
  \/ \E r \in RentalIds : rentals[r].customerId = id
  \/ \E k \in 1..Len(payments) : payments[k].customerId = id

\* router.delete('/:id', requireAdmin, handler): requireAdmin is the first
\* middleware of the route, then customer.findUnique answers
DeleteCustomerChecked(p, id) ==
  IF ~requireAdmin(Unauthenticated)
  THEN Finish(p, Err(403, "Unauthorized: Admin access required"))
  ELSE IF id \notin DOMAIN customers
  THEN Finish(p, Err(404, "Customer not found"))
  ELSE IF HasCustomerHistory(id)
  THEN Finish(p, Err(400, "Cannot delete customer with rental or payment history."))
  ELSE Goto(p, "dc_delete", [op |-> "deleteCustomer", id |-> id])

DeleteCustomerFind(p) ==
  /\ Accept(p)
  /\ \/ /\ requireAdmin(Unauthenticated)
        /\ Finish(p, Err(500, "Failed to delete customer"))   \* findUnique throws
     \/ \E id \in CustomerIds : DeleteCustomerChecked(p, id)
  /\ UNCHANGED <<db, now>>

\* customer.delete({ where: { id } }); the store refuses to delete a customer
\* that a rental or a payment references.  No request passes requireAdmin, so
\* no request ever stands at this call.
DeleteCustomerDelete(p) ==
  /\ pc[p] = "dc_delete"
  /\ \E dbOk \in BOOLEAN :
       LET id == req[p].id
       IN IF dbOk /\ id \in DOMAIN customers /\ ~HasCustomerHistory(id)
          THEN /\ customers' = [c \in DOMAIN customers \ {id} |-> customers[c]]
               /\ Finish(p, Ok(200))
          ELSE /\ customers' = customers
               /\ Finish(p, Err(500, "Failed to delete customer"))
  /\ UNCHANGED <<batteries, rentals, payments, now, nreq>>

\* ---------------------------------------------------- GET /api/users
\* router.get('/', requireAdmin, handler): user.findMany answers or throws;
\* the store is read and not written
ListUsers(p) ==
  /\ Accept(p)
  /\ IF ~requireAdmin(Unauthenticated)
     THEN Finish(p, Err(403, "Unauthorized: Admin access required"))
     ELSE \E dbOk \in BOOLEAN :
            Finish(p, IF dbOk THEN Ok(200) ELSE Err(500, "Failed to fetch users"))
  /\ UNCHANGED <<db, now>>

\* ------------------------------------------------ POST /api/customers
\* the store's @unique on Customer.phoneNumber
PhoneTaken(phone, except) ==
  \E c \in DOMAIN customers \ except : customers[c].phoneNumber = phone

AddCustomerFind(p) ==
  /\ Accept(p)
  /\ Cardinality(DOMAIN customers) + InFlight("addCustomer") < Cardinality(CustomerIds)
  /\ \/ \E body \in AddCustomerBodies :
            /\ (body.name = "" \/ body.phoneNumber = "")
            /\ Finish(p, Err(400, "Name and phone number are required"))
     \/ Finish(p, Err(500, "Failed to create customer"))     \* findUnique throws
     \/ \E body \in AddCustomerBodies :
            /\ ~(body.name = "" \/ body.phoneNumber = "")
            /\ IF PhoneTaken(body.phoneNumber, {})
               THEN Finish(p, Err(400, "Customer with this phone number already exists"))
               ELSE Goto(p, "ac_create",
                         [op |-> "addCustomer", phoneNumber |-> body.phoneNumber])
  /\ UNCHANGED <<db, now>>

AddCustomerCreate(p) ==
  /\ pc[p] = "ac_create"
  /\ \E id \in CustomerIds \ DOMAIN customers, dbOk \in BOOLEAN :
       IF dbOk /\ ~PhoneTaken(req[p].phoneNumber, {})
       THEN /\ customers' = [c \in DOMAIN customers \cup {id} |->
                               IF c = id
                               THEN [phoneNumber |-> req[p].phoneNumber,
                                     creditRating |-> DefaultCreditRating]
                               ELSE customers[c]]
            /\ Finish(p, Ok(201))
       ELSE /\ customers' = customers
            /\ Finish(p, Err(500, "Failed to create customer"))
  /\ UNCHANGED <<batteries, rentals, payments, now, nreq>>

\* ---------------------------------------------- PUT /api/customers/:id
UpdateCustomerFind(p) ==
  /\ Accept(p)
  /\ \/ Finish(p, Err(500, "Failed to update customer"))    \* findUnique throws
     \/ \E id \in CustomerIds :
            /\ id \notin DOMAIN customers
            /\ Finish(p, Err(404, "Customer not found"))
     \/ \E id \in DOMAIN customers, phoneNumber \in PhoneInputs, creditRating \in RawRatings :
            Goto(p, IF phoneNumber # "" /\ phoneNumber # customers[id].phoneNumber
                    THEN "uc_findDuplicate" ELSE "uc_update",
                 [op |-> "updateCustomer", id |-> id, phoneNumber |-> phoneNumber,
                  creditRating |-> creditRating])
  /\ UNCHANGED <<db, now>>

UpdateCustomerFindDuplicate(p) ==
  /\ pc[p] = "uc_findDuplicate"
  /\ \E dbOk \in BOOLEAN :
       IF ~dbOk
       THEN Finish(p, Err(500, "Failed to update customer"))
       ELSE IF PhoneTaken(req[p].phoneNumber, {})
       THEN Finish(p, Err(400, "Customer with this phone number already exists"))
       ELSE Goto(p, "uc_update", req[p])
  /\ UNCHANGED <<db, now, nreq>>

\* data: { ...(phoneNumber && { phoneNumber }),
\*         ...(creditRating !== undefined && { creditRating: parseInt(creditRating) }) }
\* the store refuses NaN for an Int column and a phone number already taken
UpdateCustomerUpdate(p) ==
  /\ pc[p] = "uc_update"
  /\ \E dbOk \in BOOLEAN :
       LET r == req[p]
           rating == IF IsSet(r.creditRating) THEN parseInt(Val(r.creditRating)) ELSE Null
       IN IF /\ dbOk
             /\ r.id \in DOMAIN customers
             /\ ~(r.phoneNumber # "" /\ PhoneTaken(r.phoneNumber, {r.id}))
             /\ ~(IsSet(r.creditRating) /\ ~IsSet(rating))
          THEN /\ customers' =
                    [customers EXCEPT
                       ![r.id].phoneNumber = IF r.phoneNumber # "" THEN r.phoneNumber ELSE @,
                       ![r.id].creditRating = IF IsSet(rating) THEN Val(rating) ELSE @]
               /\ Finish(p, Ok(200))
          ELSE /\ customers' = customers
               /\ Finish(p, Err(500, "Failed to update customer"))
  /\ UNCHANGED <<batteries, rentals, payments, now, nreq>>

\* ------------------------------------------------------- specification
\* Every route of the rental lifecycle, the ledger and the inventory; battery
\* updates leave the serial number alone.
Next ==
  \/ Tick
  \/ \E p \in Procs :
       \/ CreateRentalFindBattery(p)
       \/ CreateRentalFindCustomer(p)
       \/ CreateRentalTx(p)
       \/ ReturnBatteryFindRental(p)
       \/ ReturnBatteryTx(p)
       \/ UpdatePaymentStatusFind(p)
       \/ UpdatePaymentStatusUpdate(p)
       \/ RecordPaymentFindRental(p)
       \/ RecordPaymentFindCustomer(p)
       \/ RecordPaymentTx(p)
       \/ AddBatteryFind(p)
       \/ AddBatteryCreate(p)
       \/ UpdateBatteryStatus(p)
       \/ UpdateBatteryUpdate(p)
       \/ CreditRead(p)
       \/ CreditWrite(p)

Spec == Init /\ [][Next]_vars

\* The inventory on its own: batteries are added and updated, serial numbers
\* included.
NextInventory ==
  \E p \in Procs :
    \/ AddBatteryFind(p)
    \/ AddBatteryCreate(p)
    \/ UpdateBatteryFind(p)
    \/ UpdateBatteryFindDuplicate(p)
    \/ UpdateBatteryUpdate(p)

SpecInventory == Init /\ [][NextInventory]_vars

\* The customer records on their own: customers are added and updated, from
\* a store with customer c1 on record.
InitCustomers ==
  /\ batteries = [b \in {"b1"} |-> [serialNumber |-> "s1", status |-> "AVAILABLE"]]
  /\ customers = OnRecord({"c1"})
  /\ rentals = <<>>
  /\ payments = <<>>
  /\ now = 0
  /\ pc = [p \in Procs |-> "idle"]
  /\ req = [p \in Procs |-> NoReq]
  /\ resp = NoResp
  /\ nreq = 0

NextCustomers ==
  \E p \in Procs :
    \/ AddCustomerFind(p)
    \/ AddCustomerCreate(p)
    \/ UpdateCustomerFind(p)
    \/ UpdateCustomerFindDuplicate(p)
    \/ UpdateCustomerUpdate(p)

SpecCustomers == InitCustomers /\ [][NextCustomers]_vars

\* The records on their own: batteries and customers are added and updated,
\* from the empty store.
InitRecords ==
  /\ batteries = [b \in {} |-> [serialNumber |-> "", status |-> ""]]
  /\ customers = OnRecord({})
  /\ rentals = <<>>
  /\ payments = <<>>
  /\ now = 0
  /\ pc = [p \in Procs |-> "idle"]
  /\ req = [p \in Procs |-> NoReq]
  /\ resp = NoResp
  /\ nreq = 0

NextRecords ==
  \E p \in Procs :
    \/ AddBatteryFind(p)
    \/ AddBatteryCreate(p)
    \/ UpdateBatteryFind(p)
    \/ UpdateBatteryFindDuplicate(p)
    \/ UpdateBatteryUpdate(p)
    \/ AddCustomerFind(p)
    \/ AddCustomerCreate(p)
    \/ UpdateCustomerFind(p)
    \/ UpdateCustomerFindDuplicate(p)
    \/ UpdateCustomerUpdate(p)

SpecRecords == InitRecords /\ [][NextRecords]_vars

\* The credit rating on its own: updateCustomerCreditRating is called on a
\* store that holds a history of customer c1: up to MaxRentals rentals of
\* battery b1, one after the other, all but the last returned, each with one
\* payment of half its price or none.  Customer c2 has no rental.
RatingReturnDates == {10, 14, 15, 16, 20}

RatingRows ==
  [returnDate : {Null} \cup {Some(t) : t \in RatingReturnDates},
   isPaid : BOOLEAN, payment : BOOLEAN]

Histories ==
  {h \in UNION {[1..n -> RatingRows] : n \in 0..MaxRentals} :
     \A i \in 1..(Len(h) - 1) : IsSet(h[i].returnDate)}

HistoryRentals(h) ==
  [i \in 1..Len(h) |->
     [batteryId |-> "b1", customerId |-> "c1", rentDate |-> 0,
      returnDate |-> h[i].returnDate, rentalPrice |-> 2, isPaid |-> h[i].isPaid]]

RECURSIVE HistoryPayments(_, _)
HistoryPayments(h, i) ==
  IF i > Len(h) THEN << >>
  ELSE (IF h[i].payment
        THEN << [rentalId |-> i, customerId |-> "c1", amount |-> 1] >>
        ELSE << >>) \o HistoryPayments(h, i + 1)

InitRating ==
  /\ \E h \in Histories :
       /\ rentals = HistoryRentals(h)
       /\ payments = HistoryPayments(h, 1)
       /\ batteries = [b \in {"b1"} |->
            [serialNumber |-> "s1",
             status |-> IF \E i \in 1..Len(h) : ~IsSet(h[i].returnDate)
                        THEN "RENTED" ELSE "AVAILABLE"]]
  /\ customers = OnRecord(CustomerIds)
  /\ now = 0
  /\ pc = [p \in Procs |-> "idle"]
  /\ req = [p \in Procs |-> NoReq]
  /\ resp = NoResp
  /\ nreq = 0

NextRating ==
  \E p \in Procs :
    \/ Recompute(p)
    \/ CreditRead(p)
    \/ CreditWrite(p)

SpecRating == InitRating /\ [][NextRating]_vars

\* An open rental is settled: from the store as Create Rental leaves it
\* (battery b1 rented to customer c1, nothing paid), returns and payments are
\* called and nothing else.
InitSettle ==
  /\ batteries = [b \in {"b1"} |-> [serialNumber |-> "s1", status |-> "RENTED"]]
  /\ customers = OnRecord(CustomerIds)
  /\ rentals = << [batteryId |-> "b1", customerId |-> "c1", rentDate |-> 0,
                   returnDate |-> Null, rentalPrice |-> 2, isPaid |-> FALSE] >>
  /\ payments = << >>
  /\ now = 0
  /\ pc = [p \in Procs |-> "idle"]
  /\ req = [p \in Procs |-> NoReq]
  /\ resp = NoResp
  /\ nreq = 0

NextSettle ==
  \E p \in Procs :
    \/ ReturnBatteryFindRental(p)
    \/ ReturnBatteryTx(p)
    \/ RecordPaymentOfNumber(p)
    \/ RecordPaymentFindCustomer(p)
    \/ RecordPaymentTx(p)
    \/ CreditRead(p)
    \/ CreditWrite(p)

SpecSettle == InitSettle /\ [][NextSettle]_vars

\* A rented battery's later life: from the store as Create Rental leaves it,
\* the battery is returned, batteries are added and the admin-only routes
\* (deletions, the list of users) are asked for.
NextRetire ==
  \E p \in Procs :
    \/ DeleteBatteryFind(p)
    \/ DeleteCustomerFind(p)
    \/ ListUsers(p)
    \/ ReturnBatteryFindRental(p)
    \/ ReturnBatteryTx(p)
    \/ AddBatteryFind(p)
    \/ AddBatteryCreate(p)
    \/ CreditRead(p)
    \/ CreditWrite(p)

SpecRetire == InitSettle /\ [][NextRetire]_vars

\* The ledger on its own: rentals are created and paid, with amounts that are
\* JSON numbers, and nothing else is called.
NextLedger ==
  \E p \in Procs :
    \/ CreateRentalFindBattery(p)
    \/ CreateRentalFindCustomer(p)
    \/ CreateRentalTx(p)
    \/ RecordPaymentOfNumber(p)
    \/ RecordPaymentFindCustomer(p)
    \/ RecordPaymentTx(p)
    \/ CreditRead(p)
    \/ CreditWrite(p)

SpecLedger == Init /\ [][NextLedger]_vars

\* ================================================================ claims
\* a step of slot p that leaves label
Leaves(p, label) == pc[p] = label /\ pc'[p] # label

Conflict(msg) == Err(400, msg)

\* C1: a battery's status is RENTED if and only if a rental of that battery
\* has no returnDate.
StatusMatchesOpenRental ==
  \A b \in DOMAIN batteries :
    batteries[b].status = "RENTED" <=> OpenRentals(b) # {}

\* C2: no battery has two rentals without returnDate at once.
AtMostOneOpenRental ==
  \A b \in DOMAIN batteries : Cardinality(OpenRentals(b)) <= 1

\* C3: a Create Rental whose battery is on record and not AVAILABLE when the
\* handler reads it is answered 400 "Battery is not available for rent",
\* inserts no rental and leaves every battery as it was.
UnavailableBatteryRejected ==
  [][\A p \in Procs : \A body \in CreateRentalBodies :
       ( /\ Accept(p)
         /\ ~CreateRentalIncomplete(body)
         /\ CreateRentalChecked(p, body)
         /\ body.batteryId \in DOMAIN batteries
         /\ batteries[body.batteryId].status \in {"RENTED", "MAINTENANCE"} )
       => ( /\ resp' = Conflict("Battery is not available for rent")
            /\ pc'[p] = "idle"
            /\ rentals' = rentals
            /\ batteries' = batteries )]_vars

SecondRentalRejected ==
  /\ resp = Conflict("Battery is not available for rent")
  /\ \E b \in DOMAIN batteries : batteries[b].status = "RENTED" /\ OpenRentals(b) # {}

\* C4: the transaction of Create Rental either inserts the open rental and
\* sets its battery RENTED, or (a write threw) leaves rentals and batteries
\* as they were.
CreateRentalAllOrNothing ==
  [][\A p \in Procs : Leaves(p, "cr_tx") =>
       LET b == req[p].batteryId
           n == Len(rentals) + 1
       IN \/ /\ resp' = Ok(201)
             /\ Len(rentals') = n
             /\ SubSeq(rentals', 1, Len(rentals)) = rentals
             /\ rentals'[n].batteryId = b
             /\ rentals'[n].customerId = req[p].customerId
             /\ rentals'[n].rentDate = now
             /\ ~IsSet(rentals'[n].returnDate)
             /\ batteries' = [batteries EXCEPT ![b].status = "RENTED"]
          \/ /\ resp' = Err(500, "Failed to create rental")
             /\ rentals' = rentals
             /\ batteries' = batteries]_vars

RentalCreated ==
  /\ resp = Ok(201)
  /\ \E r \in RentalIds :
       ~IsSet(rentals[r].returnDate) /\ batteries[rentals[r].batteryId].status = "RENTED"

\* C5: the transaction of Return Battery either sets the rental's returnDate
\* (the date supplied, else now) and its battery AVAILABLE, or (a write threw)
\* leaves rentals and batteries as they were.
ReturnAllOrNothing ==
  [][\A p \in Procs : Leaves(p, "rb_tx") =>
       LET r == req[p].id
           b == req[p].rental.batteryId
       IN \/ /\ pc'[p] = "credit_read"
             /\ rentals'[r].returnDate =
                  (IF IsSet(req[p].returnDate) THEN req[p].returnDate ELSE Some(now))
             /\ \A q \in RentalIds \ {r} : rentals'[q] = rentals[q]
             /\ batteries' = [batteries EXCEPT ![b].status = "AVAILABLE"]
          \/ /\ resp' = Err(500, "Failed to return battery")
             /\ rentals' = rentals
             /\ batteries' = batteries]_vars

BatteryReturned ==
  /\ resp = Ok(200)
  /\ \E r \in RentalIds :
       IsSet(rentals[r].returnDate) /\ batteries[rentals[r].batteryId].status = "AVAILABLE"

\* C6: a Return Battery whose rental has a returnDate when the handler reads
\* it is answered 400 "Battery has already been returned" and changes no
\* rental, battery or customer.
SecondReturnRejected ==
  [][\A p \in Procs : \A id \in RentalIds : \A returnDate \in OptTime : \A isPaid \in OptBool :
       ( /\ Accept(p)
         /\ ReturnBatteryChecked(p, id, returnDate, isPaid)
         /\ IsSet(rentals[id].returnDate) )
       => ( /\ resp' = Conflict("Battery has already been returned")
            /\ pc'[p] = "idle"
            /\ rentals' = rentals
            /\ batteries' = batteries
            /\ customers' = customers )]_vars

ReturnedTwice ==
  /\ resp = Conflict("Battery has already been returned")
  /\ \E r \in RentalIds : IsSet(rentals[r].returnDate)

\* C7: once a rental has a returnDate, no Return Battery on it commits and its
\* returnDate never changes.
ClosedExactlyOnce ==
  [][\A r \in RentalIds : IsSet(rentals[r].returnDate) =>
       /\ rentals'[r].returnDate = rentals[r].returnDate
       /\ \A p \in Procs : ~(Leaves(p, "rb_tx") /\ req[p].id = r /\ pc'[p] = "credit_read")]_vars

\* C8: a rental whose payments sum to at least its rentalPrice has isPaid.
PaidWhenCovered ==
  \A r \in RentalIds : TotalPaid(r) >= rentals[r].rentalPrice => rentals[r].isPaid

\* the transaction step of a Record Payment whose rental and payments are
\* still as its handler read them
IsolatedPayment(p) ==
  /\ Leaves(p, "pm_tx")
  /\ req[p].totalPaidSoFar = TotalPaid(req[p].rentalId)
  /\ req[p].rental = Read(rentals[req[p].rentalId])

StepOf(p, op) ==
  /\ pc'[p] # pc[p]
  /\ (req[p].op = op \/ req'[p].op = op)

\* C10: no step of a Record Payment turns a rental's isPaid from true to
\* false, and the transaction of a Record Payment on a rental that is paid
\* inserts the payment and leaves isPaid true (unless a write throws).
PaymentKeepsPaid ==
  [][\A p \in Procs : StepOf(p, "recordPayment") =>
       /\ \A r \in RentalIds : rentals[r].isPaid => rentals'[r].isPaid
       /\ (Leaves(p, "pm_tx") /\ rentals[req[p].rentalId].isPaid) =>
            \/ /\ pc'[p] = "credit_read"
               /\ Len(payments') = Len(payments) + 1
               /\ rentals'[req[p].rentalId].isPaid
            \/ /\ resp' = Err(500, "Failed to create payment")
               /\ UNCHANGED db]_vars

Overpaid ==
  /\ resp = Ok(201)
  /\ \E r \in RentalIds : rentals[r].isPaid /\ TotalPaid(r) > rentals[r].rentalPrice

\* C11: no payment row carries a zero or negative amount: a Record Payment
\* with such an amount is refused before it writes.
NonPositiveAmountRejected ==
  \A i \in 1..Len(payments) : payments[i].amount > 0

\* C12: from one state to the next the payments recorded against a rental
\* never sum to less than before.
PaymentSumNeverDecreases ==
  [][\A r \in RentalIds : TotalPaid(r)' >= TotalPaid(r)]_vars

\* C13: every payment row names the customer of the rental it references, and
\* a Record Payment whose customerId is not its rental's is answered 400
\* "Customer ID does not match the rental" when that customer is on record
\* (404 when not, 500 when the lookup throws), inserts no payment and goes no
\* further.
MismatchedPaymentRejected ==
  /\ [](\A i \in 1..Len(payments) :
          payments[i].customerId = rentals[payments[i].rentalId].customerId)
  /\ [][\A p \in Procs :
          ( /\ Leaves(p, "pm_findCustomer")
            /\ req[p].customerId # rentals[req[p].rentalId].customerId )
          => ( /\ pc'[p] = "idle"
               /\ UNCHANGED db
               /\ \/ resp' = Err(500, "Failed to create payment")
                  \/ /\ req[p].customerId \in DOMAIN customers
                     /\ resp' = Conflict("Customer ID does not match the rental")
                  \/ /\ req[p].customerId \notin DOMAIN customers
                     /\ resp' = Err(404, "Customer not found") )]_vars

PaymentOfAnotherCustomerRefused ==
  /\ resp = Conflict("Customer ID does not match the rental")
  /\ Len(payments) > 0

\* the rating the recomputation is to store for a customer with rentals
ClaimedPoints(r) ==
  (IF rentals[r].isPaid THEN 2
   ELSE IF \E i \in 1..Len(payments) : payments[i].rentalId = r THEN 1 ELSE 0)
  + (IF /\ rentals[r].returnDate # Null
        /\ rentals[r].returnDate[1] - rentals[r].rentDate < (7 + 1) * TicksPerDay
     THEN 1 ELSE 0)

RECURSIVE ClaimedTotal(_)
ClaimedTotal(rs) ==
  IF rs = {} THEN 0
  ELSE LET r == CHOOSE x \in rs : TRUE IN ClaimedPoints(r) + ClaimedTotal(rs \ {r})

\* round(5 * t / (3 * n)): the k with k - 1/2 <= 5t/(3n) < k + 1/2
ClaimedRating(c) ==
  LET rs == {r \in RentalIds : rentals[r].customerId = c}
      n == Cardinality(rs)
      t == ClaimedTotal(rs)
  IN CHOOSE k \in 0..5 : 6 * n * k - 3 * n <= 10 * t /\ 10 * t < 6 * n * k + 3 * n

\* C14: the recomputation for a customer with n >= 1 rentals stores
\* round(5 * totalPoints / (3 * n)), a rental counting 2 when isPaid, else 1
\* when it has a payment, plus 1 when returned within 7 whole days (unless the
\* read or the write throws, when nothing is stored).
RatingFollowsFormula ==
  [][\A p \in Procs :
       LET c == req[p].creditCustomer
       IN /\ (Leaves(p, "credit_read") /\ RentalsOf(c) # {}) =>
               \/ pc'[p] = "credit_write" /\ req'[p].rating = ClaimedRating(c)
               \/ pc'[p] = "idle"
          /\ Leaves(p, "credit_write") =>
               \/ customers' = [customers EXCEPT ![c].creditRating = ClaimedRating(c)]
               \/ customers' = customers]_vars

\* one unpaid rental with one partial payment, returned after 10 days, gives 2
PartialLateGivesTwo ==
  /\ customers["c1"].creditRating = 2
  /\ Len(rentals) = 1 /\ Len(payments) = 1
  /\ ~rentals[1].isPaid
  /\ rentals[1].returnDate = Some(rentals[1].rentDate + 10 * TicksPerDay)

\* C15: every customer's creditRating is an integer in 0..5; a new customer
\* has 3, and the rating of a customer on record changes only in the write of
\* the recomputation for that customer.
RatingOnlyRecomputed ==
  [][\A c \in DOMAIN customers' :
       /\ customers'[c].creditRating \in 0..5
       /\ IF c \in DOMAIN customers
          THEN customers'[c].creditRating # customers[c].creditRating =>
                 \E p \in Procs : Leaves(p, "credit_write") /\ req[p].creditCustomer = c
          ELSE customers'[c].creditRating = 3]_vars

\* C16: while a customer's rentals and payments stay as they are, the first
\* recomputation that stores a rating other than the one on record is the
\* only one that changes it: every later recomputation for that customer
\* stores the rating already there, and no recomputation changes the record
\* of another customer, a battery, a rental or a payment.
RecomputeIdempotent ==
  [][\A p \in Procs : Leaves(p, "credit_write") =>
       LET c == req[p].creditCustomer
       IN /\ UNCHANGED <<batteries, rentals, payments>>
          /\ \A d \in DOMAIN customers \ {c} : customers'[d] = customers[d]
          /\ \/ customers' = customers
             \/ customers[c].creditRating = DefaultCreditRating]_vars

\* a second run for c1 is about to store the rating the first one stored
SecondRunStoresSame ==
  \E p \in Procs :
    /\ pc[p] = "credit_write"
    /\ req[p].creditCustomer = "c1"
    /\ customers["c1"].creditRating # DefaultCreditRating
    /\ req[p].rating = customers["c1"].creditRating
    /\ \A q \in Procs \ {p} : pc[q] = "idle"

\* C17: a customer without rentals has creditRating 3.
NoRentalKeepsDefault ==
  \A c \in DOMAIN customers : RentalsOf(c) = {} => customers[c].creditRating = 3

\* C18: once a Return Battery or a Record Payment has committed, no step of
\* its credit-rating recomputation, whether its read or its write throws or
\* not, changes a rental, a payment or a battery, and the handler answers
\* success (200 for the return, 201 for the payment).
RecomputeFailureSwallowed ==
  [][\A p \in Procs :
       ( /\ pc[p] \in {"credit_read", "credit_write"}
         /\ pc'[p] # pc[p]
         /\ req[p].op \in {"returnBattery", "recordPayment"} )
       => ( /\ UNCHANGED <<batteries, rentals, payments>>
            /\ pc'[p] \in {"credit_write", "idle"}
            /\ pc'[p] = "idle" =>
                 resp' = (IF req[p].op = "returnBattery" THEN Ok(200) ELSE Ok(201)) )]_vars

\* a late return of an unpaid rental was answered 200 and the customer's
\* rating was not written
ReturnedWithoutRating ==
  /\ resp = Ok(200)
  /\ nreq = 2
  /\ \A p \in Procs : pc[p] = "idle"
  /\ Len(rentals) = 1 /\ payments = << >>
  /\ ~rentals[1].isPaid
  /\ rentals[1].returnDate = Some(rentals[1].rentDate + 8 * TicksPerDay)
  /\ batteries[rentals[1].batteryId].status = "AVAILABLE"
  /\ customers[rentals[1].customerId].creditRating = DefaultCreditRating

\* C19: one Return Battery and one Record Payment on a customer's rental have
\* both committed and the recomputation of one has stored its rating; when
\* the recomputation of the other then stores its own, and with that both
\* requests are complete, the rating on record is the formula's value for
\* the customer's rentals and payments as they are then.
FinalRatingFresh ==
  [][\A p \in Procs :
       LET c == req[p].creditCustomer
       IN ( /\ Leaves(p, "credit_write")
            /\ customers'[c].creditRating = req[p].rating
            /\ \A q \in Procs \ {p} : pc[q] = "idle"
            /\ nreq = 2
            /\ Len(payments) = 1 /\ payments[1].rentalId = 1
            /\ IsSet(rentals[1].returnDate)
            /\ customers[c].creditRating # DefaultCreditRating )
          => customers'[c].creditRating = ClaimedRating(c)]_vars

\* C20: every rental references a battery on record, and a request to delete
\* a battery that has a rental, open or closed, is answered 403 and changes
\* no battery and no rental; no request ever reaches battery.delete.
BatteryWithRentalsKept ==
  /\ [](\A r \in RentalIds : rentals[r].batteryId \in DOMAIN batteries)
  /\ [](\A p \in Procs : pc[p] # "db_delete")
  /\ [][\A p \in Procs : \A id \in BatteryIds :
          ( /\ Accept(p)
            /\ DeleteBatteryChecked(p, id)
            /\ \E r \in RentalIds : rentals[r].batteryId = id )
          => ( /\ resp' = Err(403, "Unauthorized: Admin access required")
               /\ pc'[p] = "idle"
               /\ batteries' = batteries
               /\ rentals' = rentals )]_vars

\* a deletion was refused while battery b1 is back in stock with its rental
\* closed
DeletionOfReturnedBatteryRefused ==
  /\ resp = Err(403, "Unauthorized: Admin access required")
  /\ "b1" \in DOMAIN batteries /\ batteries["b1"].status = "AVAILABLE"
  /\ \E r \in RentalIds : rentals[r].batteryId = "b1" /\ IsSet(rentals[r].returnDate)

\* C21: Create Rental tests its preconditions before it writes, in the order
\* battery on record, battery AVAILABLE, customer on record.  A battery on no
\* record is answered 404 "Battery not found" whoever the customer; a battery
\* that is not AVAILABLE is answered 400 even when the customer is on no
\* record; a customer on no record, the battery having been read AVAILABLE,
\* is answered 404 "Customer not found" (500 when the lookup throws).  In each
\* case the request ends there, no rental is inserted and no battery changes.
CreateRentalPreconditionOrder ==
  [][\A p \in Procs :
       /\ \A body \in CreateRentalBodies :
            ( /\ Accept(p)
              /\ ~CreateRentalIncomplete(body)
              /\ CreateRentalChecked(p, body) )
            => ( /\ rentals' = rentals /\ batteries' = batteries
                 /\ body.batteryId \notin DOMAIN batteries =>
                      resp' = Err(404, "Battery not found") /\ pc'[p] = "idle"
                 /\ ( /\ body.batteryId \in DOMAIN batteries
                      /\ batteries[body.batteryId].status # "AVAILABLE"
                      /\ body.customerId \notin DOMAIN customers ) =>
                      resp' = Conflict("Battery is not available for rent") /\ pc'[p] = "idle" )
       /\ ( /\ Leaves(p, "cr_findCustomer")
            /\ req[p].customerId \notin DOMAIN customers )
          => ( /\ rentals' = rentals /\ batteries' = batteries
               /\ pc'[p] = "idle"
               /\ resp' \in {Err(404, "Customer not found"),
                             Err(500, "Failed to create rental")} )]_vars

\* a rental of the AVAILABLE battery b1 to a customer on no record was refused
UnknownCustomerRefused ==
  /\ resp = Err(404, "Customer not found")
  /\ rentals = << >>
  /\ batteries["b1"].status = "AVAILABLE"

\* C22: the transaction of Create Rental changes a battery's status only from
\* AVAILABLE to RENTED, and the transaction of Return Battery only from
\* RENTED to AVAILABLE.
LifecycleTransitionsOnly ==
  [][\A p \in Procs : \A b \in DOMAIN batteries :
       batteries'[b].status # batteries[b].status =>
         /\ Leaves(p, "cr_tx") =>
              batteries[b].status = "AVAILABLE" /\ batteries'[b].status = "RENTED"
         /\ Leaves(p, "rb_tx") =>
              batteries[b].status = "RENTED" /\ batteries'[b].status = "AVAILABLE"]_vars

\* C23: no two batteries have the same serialNumber and no two customers the
\* same phoneNumber; no request starts to write before its lookups are
\* answered, and a create or an update that would give a record the serial
\* number or the phone number of another record is answered with an error and
\* leaves batteries and customers as they were.
UniqueSerialsAndPhones ==
  /\ [](\A a, b \in DOMAIN batteries :
          a # b => batteries[a].serialNumber # batteries[b].serialNumber)
  /\ [](\A c, d \in DOMAIN customers :
          c # d => customers[c].phoneNumber # customers[d].phoneNumber)
  /\ [][\A p \in Procs :
          /\ nreq' # nreq => UNCHANGED db
          /\ (Leaves(p, "ub_findDuplicate") \/ Leaves(p, "uc_findDuplicate")) => UNCHANGED db
          /\ ( /\ Leaves(p, "ab_create")
               /\ \E b \in DOMAIN batteries :
                    batteries[b].serialNumber = req[p].serialNumber )
             => resp'.status >= 400 /\ UNCHANGED db
          /\ ( /\ Leaves(p, "ub_update")
               /\ \E b \in DOMAIN batteries \ {req[p].id} :
                    batteries[b].serialNumber = req[p].serialNumber )
             => resp'.status >= 400 /\ UNCHANGED db
          /\ ( /\ Leaves(p, "ac_create")
               /\ \E c \in DOMAIN customers :
                    customers[c].phoneNumber = req[p].phoneNumber )
             => resp'.status >= 400 /\ UNCHANGED db
          /\ ( /\ Leaves(p, "uc_update")
               /\ \E c \in DOMAIN customers \ {req[p].id} :
                    customers[c].phoneNumber = req[p].phoneNumber )
             => resp'.status >= 400 /\ UNCHANGED db]_vars

\* two concurrent requests added batteries with one serial number: the first
\* is on record, the second has passed its lookup and stands at its create
SecondOfTwoAddsPending ==
  \E p \in Procs :
    /\ pc[p] = "ab_create"
    /\ \E b \in DOMAIN batteries : batteries[b].serialNumber = req[p].serialNumber
    /\ resp = Ok(201)

\* C24: every request to an admin-only route (delete battery, delete
\* customer, the list of users) passes requireAdmin and reaches its handler:
\* none is answered 403 "Unauthorized: Admin access required", the one answer
\* that requireAdmin gives in place of calling the handler.
AdminRoutesReachHandler ==
  resp # Err(403, "Unauthorized: Admin access required")

\* C25: the transaction of a Return Battery called without an isPaid override
\* leaves the rental's isPaid as the store holds it when the transaction
\* commits, whatever a Record Payment on the same rental did in between: an
\* isPaid that a payment has set to true is not made false by such a return.
\* Stated for the return that finds the rental still open when it commits, so
\* that only a Record Payment can have written isPaid since the return read it.
ReturnKeepsStoredIsPaid ==
  [][\A p \in Procs :
       ( /\ Leaves(p, "rb_tx")
         /\ ~IsSet(req[p].isPaid)
         /\ ~IsSet(rentals[req[p].id].returnDate) ) =>
         rentals'[req[p].id].isPaid = rentals[req[p].id].isPaid]_vars

====
